---- MODULE Spec2Model ----
(***************************************************************************)
(* Model of the AST node model (statemachine_ast/StateMachine.py) and of   *)
(* the LRP serialization layer (server/LRP.py) of NaoMod/State-Machines.   *)
(*                                                                         *)
(* Objects are identified by their position in the sequences `state` and   *)
(* `transition` (object identity); every ModelElement also carries the id  *)
(* string its constructor drew from uuid4.                                 *)
(***************************************************************************)
EXTENDS Integers, Sequences, FiniteSets, TLC

\* ---- bounds of the model ------------------------------------------------
MaxStates == 3
MaxTransitions == 2
MaxObjects == 4
MaxAdjacency == 3
MaxBatch == 2
MaxInputs == 2

\* ---- Python values --------------------------------------------------------
\* None where a str is expected (name, input, output).
None == "<None>"
\* None where an object reference is expected (initial_state, next_transition).
NoObject == 0
\* None where an int is expected (next_consumed_input_index).
NoIndex == 0 - 1

Names == {"A"}
\* (input, output) of a transition: unconditioned and silent, or "x" / "y".
Labels == {<<None, None>>, <<"x", "y">>}

VARIABLES
    machine,        \* the StateMachine object
    state,          \* the State objects, in creation order
    transition,     \* the Transition objects, in creation order
    response,       \* outcome of the latest call on an AST node of the current tree
    runtime,        \* the Runtime object of the execution engine
    runtime_state,  \* the latest RuntimeState built from runtime
    rt_response     \* outcome of the latest RuntimeState.to_dict call

vars == <<machine, state, transition, response,
          runtime, runtime_state, rt_response>>
rt_vars == <<runtime, runtime_state, rt_response>>

\* ---- identities ---------------------------------------------------------
\* str(uuid.uuid4()): draws are pairwise distinct (collisions of the random
\* 122 bits are not modelled); the draw of an object is numbered by the object.
uuid4(n) == "uuid-" \o ToString(n)
MachineDraw == 1
StateDraw(s) == 1 + s
TransitionDraw(t) == 1 + MaxStates + t
RuntimeStateDraw == 1 + MaxStates + MaxTransitions + 1

States == 1..Len(state)
Transitions == 1..Len(transition)
Composites == {s \in States : state[s].kind = "composite"}

\* ModelElement.__init__ / ASTElement.__init__ (location is None throughout)
ModelElement_init(type, draw) == [id |-> uuid4(draw), type |-> type]

\* StateMachine.__init__
StateMachine_init(name) ==
    [id |-> ModelElement_init("stateMachine.stateMachine", MachineDraw).id,
     type |-> ModelElement_init("stateMachine.stateMachine", MachineDraw).type,
     name |-> name, initial_state |-> NoObject, states |-> <<>>]

\* State.__init__, as called by SimpleState.__init__ and CompositeState.__init__
State_init(kind, name, is_final, draw) ==
    [id |-> ModelElement_init("stateMachine.state", draw).id,
     type |-> ModelElement_init("stateMachine.state", draw).type,
     kind |-> kind, name |-> name, is_final |-> is_final,
     outgoing_transitions |-> <<>>, incoming_transitions |-> <<>>,
     states |-> <<>>, initial_state |-> NoObject]

\* SimpleState.__init__
SimpleState_init(name, is_final, draw) == State_init("simple", name, is_final, draw)

\* CompositeState.__init__: super().__init__(name, None, False, location)
CompositeState_init(name, draw) == State_init("composite", name, FALSE, draw)

\* Transition.__init__
Transition_init(source, target, input, output, draw) ==
    [id |-> ModelElement_init("stateMachine.transition", draw).id,
     type |-> ModelElement_init("stateMachine.transition", draw).type,
     source |-> source, target |-> target, input |-> input, output |-> output]

\* InitialState.__init__: the pseudostate is represented by its target.
InitialState_init(target) == target

NoCall == [call |-> "none"]

\* ---- containment ----------------------------------------------------------
\* The states lists are filled by the tree builder, which is not part of the
\* sources; it is modelled from the data model: a state is owned by exactly one
\* states list and no CompositeState contains itself.
RECURSIVE Descendants(_)
Descendants(s) ==
    LET kids == {state[s].states[i] : i \in DOMAIN state[s].states}
    IN kids \cup UNION {Descendants(k) : k \in kids}

Contained ==
    {machine.states[i] : i \in DOMAIN machine.states}
        \cup UNION {{state[c].states[i] : i \in DOMAIN state[c].states} : c \in States}

\* ---- construction of the tree ---------------------------------------------
Room == Len(state) + Len(transition) < MaxObjects

NewSimpleState(name, is_final) ==
    /\ Len(state) < MaxStates /\ Room
    /\ state' = Append(state, SimpleState_init(name, is_final, StateDraw(Len(state) + 1)))
    /\ response' = NoCall
    /\ UNCHANGED <<machine, transition, rt_vars>>

NewCompositeState(name) ==
    /\ Len(state) < MaxStates /\ Room
    /\ state' = Append(state, CompositeState_init(name, StateDraw(Len(state) + 1)))
    /\ response' = NoCall
    /\ UNCHANGED <<machine, transition, rt_vars>>

\* machine.states.append(s) (container = NoObject) or c.states.append(s)
AppendState(container, s) ==
    /\ s \notin Contained
    /\ container # NoObject => /\ container \in Composites
                               /\ container \notin Descendants(s) \cup {s}
    /\ IF container = NoObject
       THEN /\ machine' = [machine EXCEPT !.states = Append(@, s)]
            /\ UNCHANGED state
       ELSE /\ state' = [state EXCEPT ![container].states = Append(@, s)]
            /\ UNCHANGED machine
    /\ response' = NoCall
    /\ UNCHANGED <<transition, rt_vars>>

\* owner.initial_state = InitialState(target), owner the machine (NoObject)
\* or a CompositeState; set once, after the states exist.
SetInitialState(owner, target) ==
    /\ IF owner = NoObject
       THEN /\ machine.initial_state = NoObject
            /\ machine' = [machine EXCEPT !.initial_state = InitialState_init(target)]
            /\ UNCHANGED state
       ELSE /\ owner \in Composites
            /\ state[owner].initial_state = NoObject
            /\ state' = [state EXCEPT ![owner].initial_state = InitialState_init(target)]
            /\ UNCHANGED machine
    /\ response' = NoCall
    /\ UNCHANGED <<transition, rt_vars>>

\* Transition(source, target, input, output), not yet in any adjacency list
NewTransition(source, target, input, output) ==
    /\ Len(transition) < MaxTransitions /\ Room
    /\ transition' = Append(transition,
           Transition_init(source, target, input, output, TransitionDraw(Len(transition) + 1)))
    /\ response' = NoCall
    /\ UNCHANGED <<machine, state, rt_vars>>

\* State.create_transition
create_transition(self, target, input, output) ==
    /\ Len(transition) < MaxTransitions /\ Room
    /\ Len(state[self].outgoing_transitions) < MaxAdjacency
    /\ Len(state[target].incoming_transitions) < MaxAdjacency
    /\ LET t == Len(transition) + 1
           s1 == [state EXCEPT ![self].outgoing_transitions = Append(@, t)]
       IN /\ transition' = Append(transition,
                 Transition_init(self, target, input, output, TransitionDraw(t)))
          /\ state' = [s1 EXCEPT ![target].incoming_transitions = Append(@, t)]
    /\ response' = NoCall
    /\ UNCHANGED <<machine, rt_vars>>

\* The second loop of State.add_transitions: transition.target.incoming_transitions.append
RECURSIVE AppendIncoming(_, _)
AppendIncoming(st, ts) ==
    IF ts = <<>> THEN st
    ELSE AppendIncoming(
             [st EXCEPT ![transition[Head(ts)].target].incoming_transitions = Append(@, Head(ts))],
             Tail(ts))

\* State.add_transitions
add_transitions_effect(self, ts) ==
    AppendIncoming([state EXCEPT ![self].outgoing_transitions = @ \o ts], ts)

\* The lists of distinct Transition objects of length 1..MaxBatch.
Batches ==
    {ts \in UNION {[1..n -> Transitions] : n \in 1..MaxBatch} :
        \A i, j \in DOMAIN ts : ts[i] = ts[j] => i = j}

add_transitions(self, ts) ==
    /\ LET st == add_transitions_effect(self, ts)
       IN /\ \A s \in States : /\ Len(st[s].outgoing_transitions) <= MaxAdjacency
                               /\ Len(st[s].incoming_transitions) <= MaxAdjacency
          /\ state' = st
    /\ response' = NoCall
    /\ UNCHANGED <<machine, transition, rt_vars>>

\* ---- get_nested_initial_state ---------------------------------------------
\* A call either returns a State or raises.  Python ends a recursion that does
\* not end by itself with RecursionError; a chain of initial targets longer
\* than the number of State objects revisits one of them and never ends.
RecursionLimit == MaxStates + 1
Returned(s) == [returned |-> s]
Raise(e) == [error |-> e]
Raised(r) == "error" \in DOMAIN r

\* State.get_nested_initial_state
State_get_nested_initial_state(self) == Returned(self)

\* SimpleState.get_nested_initial_state
SimpleState_get_nested_initial_state(self) == State_get_nested_initial_state(self)

RECURSIVE get_nested_initial_state(_, _)

\* Variant: the pseudostate hands back its target without resolving it.
InitialState_returns_target(target, depth) == Returned(target)

\* InitialState.get_nested_initial_state
InitialState_get_nested_initial_state(target, depth) ==
    get_nested_initial_state(target, depth + 1)

\* Variant: the composite resolves itself instead of its initial pseudostate.
CompositeState_resolves_itself(self, depth) ==
    IF state[self].initial_state = NoObject
    THEN Raise("ValueError")
    ELSE get_nested_initial_state(self, depth + 1)

\* CompositeState.get_nested_initial_state
CompositeState_get_nested_initial_state(self, depth) ==
    IF state[self].initial_state = NoObject
    THEN Raise("ValueError")
    ELSE InitialState_get_nested_initial_state(state[self].initial_state, depth)

\* dynamic dispatch of state.get_nested_initial_state()
get_nested_initial_state(self, depth) ==
    IF depth > RecursionLimit THEN Raise("RecursionError")
    ELSE IF state[self].kind = "simple"
         THEN SimpleState_get_nested_initial_state(self)
         ELSE CompositeState_get_nested_initial_state(self, depth)

\* ---- serialization ----------------------------------------------------------
EmptyDict == [k \in {} |-> None]

\* ModelElement.construct_dict
ModelElement_construct_dict(self, attributes, children, refs) ==
    [id |-> self.id, type |-> self.type, attributes |-> attributes,
     children |-> children, refs |-> refs]

\* ASTElement.construct_dict, self.location is None
ASTElement_construct_dict(self, attributes, children, refs) ==
    ModelElement_construct_dict(self, attributes, children, refs)

\* Variant: refs.target is emitted whatever the target.
Transition_to_dict_always_target(t) ==
    LET self == transition[t]
    IN ASTElement_construct_dict(self,
           "input" :> self.input @@ "ouptut" :> self.output, EmptyDict,
           "target" :> state[self.target].id)

\* Transition.to_dict
Transition_to_dict(t) ==
    LET self == transition[t]
        refs == IF ~state[self.target].is_final
                THEN "target" :> state[self.target].id
                ELSE EmptyDict
    IN ASTElement_construct_dict(self,
           "input" :> self.input @@ "ouptut" :> self.output, EmptyDict, refs)

\* Variant: the first filter tests the source of the transition.
NonFinalTargets_by_source(ts) ==
    SelectSeq(ts, LAMBDA t : ~state[transition[t].source].is_final)

\* the two filters of State.construct_dict
NonFinalTargets(ts) == SelectSeq(ts, LAMBDA t : ~state[transition[t].target].is_final)
FinalTargets(ts) == SelectSeq(ts, LAMBDA t : state[transition[t].target].is_final)

\* State.construct_dict; in {'name': ..., **attributes} the later keys win
State_construct_dict(s, attributes, children, refs) ==
    LET self == state[s]
        transitions == NonFinalTargets(self.outgoing_transitions)
        final_transitions == FinalTargets(self.outgoing_transitions)
    IN ASTElement_construct_dict(self,
           attributes @@ "name" :> self.name,
           children
             @@ "transitions" :> [i \in DOMAIN transitions |-> Transition_to_dict(transitions[i])]
             @@ "final transitions" :>
                   [i \in DOMAIN final_transitions |-> Transition_to_dict(final_transitions[i])],
           refs)

\* SimpleState.to_dict
SimpleState_to_dict(s) == State_construct_dict(s, EmptyDict, EmptyDict, EmptyDict)

RECURSIVE State_to_dict(_)

\* list(map(lambda state: state.to_dict(), states)): the first exception raised
\* by an element ends the whole call.
MapStates(states) ==
    LET rs == [i \in DOMAIN states |-> State_to_dict(states[i])]
    IN IF \E i \in DOMAIN rs : Raised(rs[i])
       THEN rs[CHOOSE i \in DOMAIN rs : Raised(rs[i]) /\ \A j \in 1..(i - 1) : ~Raised(rs[j])]
       ELSE [list |-> rs]

\* Variant: a missing initial_state is serialized as "", as the machine does.
CompositeState_to_dict_lenient(s) ==
    LET states == MapStates(state[s].states)
    IN IF Raised(states) THEN states
       ELSE State_construct_dict(s, EmptyDict, "states" :> states.list,
                "initialState" :> (IF state[s].initial_state = NoObject THEN ""
                                   ELSE state[state[s].initial_state].id))

\* CompositeState.to_dict
CompositeState_to_dict(s) ==
    IF state[s].initial_state = NoObject
    THEN Raise("ValueError")
    ELSE LET states == MapStates(state[s].states)
         IN IF Raised(states) THEN states
            ELSE State_construct_dict(s, EmptyDict, "states" :> states.list,
                     "initialState" :> state[state[s].initial_state].id)

\* dynamic dispatch of state.to_dict()
State_to_dict(s) ==
    IF state[s].kind = "simple" THEN SimpleState_to_dict(s) ELSE CompositeState_to_dict(s)

\* Variant: a final initial target is replaced by the marker FINAL.
StateMachine_to_dict_final_marker ==
    LET states == MapStates(machine.states)
    IN IF Raised(states) THEN states
       ELSE ASTElement_construct_dict(machine,
                "name" :> machine.name,
                "states" :> states.list,
                "initialState" :> (IF machine.initial_state = NoObject THEN ""
                                   ELSE IF state[machine.initial_state].is_final THEN "FINAL"
                                   ELSE state[machine.initial_state].id))

\* StateMachine.to_dict
StateMachine_to_dict ==
    LET states == MapStates(machine.states)
    IN IF Raised(states) THEN states
       ELSE ASTElement_construct_dict(machine,
                "name" :> machine.name,
                "states" :> states.list,
                "initialState" :> (IF machine.initial_state = NoObject THEN ""
                                   ELSE state[machine.initial_state].id))

\* ---- calls on the tree --------------------------------------------------------
Call_get_nested_initial_state(s) ==
    /\ response' = [call |-> "get_nested_initial_state", arg |-> s,
                    result |-> get_nested_initial_state(s, 1)]
    /\ UNCHANGED <<machine, state, transition, rt_vars>>

Call_State_to_dict(s) ==
    /\ response' = [call |-> "State.to_dict", arg |-> s, result |-> State_to_dict(s)]
    /\ UNCHANGED <<machine, state, transition, rt_vars>>

Call_Transition_to_dict(t) ==
    /\ response' = [call |-> "Transition.to_dict", arg |-> t, result |-> Transition_to_dict(t)]
    /\ UNCHANGED <<machine, state, transition, rt_vars>>

Call_StateMachine_to_dict ==
    /\ response' = [call |-> "StateMachine.to_dict", arg |-> NoObject,
                    result |-> StateMachine_to_dict]
    /\ UNCHANGED <<machine, state, transition, rt_vars>>

\* ---- runtime state ----------------------------------------------------------------
\* The Runtime of the execution engine is not part of the sources.  RuntimeState
\* reads five fields of it; the engine may hand over any values of their types.
SeqsUpTo(S, n) == UNION {[1..k -> S] : k \in 0..n}

Runtime_snapshot(inputs, index, next_transition, current_state, outputs) ==
    /\ runtime' = [inputs |-> inputs, next_consumed_input_index |-> index,
                   next_transition |-> next_transition,
                   current_state |-> current_state, outputs |-> outputs]
    /\ runtime_state' = NoCall /\ rt_response' = NoCall
    /\ UNCHANGED <<machine, state, transition, response>>

\* RuntimeState.__init__
RuntimeState_init(rt) ==
    [id |-> ModelElement_init("stateMachine.runtimeState", RuntimeStateDraw).id,
     type |-> ModelElement_init("stateMachine.runtimeState", RuntimeStateDraw).type,
     inputs |-> rt.inputs,
     next_consumed_input_index |->
         IF rt.next_transition = NoObject THEN NoIndex ELSE rt.next_consumed_input_index,
     current_state |-> rt.current_state,
     outputs |-> rt.outputs]

\* Variant: the final case is not told apart.
RuntimeState_to_dict_no_final_case(self) ==
    ModelElement_construct_dict(self,
        "inputs" :> self.inputs
          @@ "nextConsumedInputIndex" :> self.next_consumed_input_index
          @@ "outputs" :> self.outputs,
        EmptyDict,
        "currentState" :> state[self.current_state].id)

\* RuntimeState.to_dict
RuntimeState_to_dict(self) ==
    IF state[self.current_state].is_final
    THEN ModelElement_construct_dict(self,
             "inputs" :> self.inputs
               @@ "nextConsumedInputIndex" :> self.next_consumed_input_index
               @@ "outputs" :> self.outputs
               @@ "currentState" :> "FINAL",
             EmptyDict, EmptyDict)
    ELSE ModelElement_construct_dict(self,
             "inputs" :> self.inputs
               @@ "nextConsumedInputIndex" :> self.next_consumed_input_index
               @@ "outputs" :> self.outputs,
             EmptyDict,
             "currentState" :> state[self.current_state].id)

\* RuntimeState(runtime)
NewRuntimeState ==
    /\ runtime # NoCall
    /\ runtime_state' = RuntimeState_init(runtime)
    /\ rt_response' = NoCall
    /\ UNCHANGED <<machine, state, transition, response, runtime>>

\* runtime_state.to_dict(), as GetRuntimeStateResponse.to_dict calls it
Call_RuntimeState_to_dict ==
    /\ runtime_state # NoCall
    /\ rt_response' = [call |-> "RuntimeState.to_dict",
                       result |-> RuntimeState_to_dict(runtime_state)]
    /\ UNCHANGED <<machine, state, transition, response, runtime, runtime_state>>

\* ---- specifications -------------------------------------------------------------
Init ==
    /\ machine = StateMachine_init("M")
    /\ state = <<>>
    /\ transition = <<>>
    /\ response = NoCall
    /\ runtime = NoCall
    /\ runtime_state = NoCall
    /\ rt_response = NoCall

Elements(seq) == {seq[i] : i \in DOMAIN seq}

\* The states list of the machine (NoObject) or of state o.
Children(o) == IF o = NoObject THEN Elements(machine.states) ELSE Elements(state[o].states)

\* Building the containment tree, setting each initial pseudostate to a state
\* of its owner's states list, and serializing.
Next ==
    \/ \E name \in Names, f \in BOOLEAN : NewSimpleState(name, f)
    \/ \E name \in Names : NewCompositeState(name)
    \/ \E c \in {NoObject} \cup States, s \in States : AppendState(c, s)
    \/ \E o \in {NoObject} \cup States : \E s \in Children(o) : SetInitialState(o, s)
    \/ \E s \in States : Call_State_to_dict(s)
    \/ Call_StateMachine_to_dict

Spec == Init /\ [][Next]_vars

\* Nesting composite states, setting their initial pseudostates to any state
\* and resolving nested initial states.
NextResolve ==
    \/ \E name \in Names : NewSimpleState(name, FALSE)
    \/ \E name \in Names : NewCompositeState(name)
    \/ \E c \in States, s \in States : AppendState(c, s)
    \/ \E o \in States, s \in States : SetInitialState(o, s)
    \/ \E s \in States : Call_get_nested_initial_state(s)

SpecResolve == Init /\ [][NextResolve]_vars

\* t is in no adjacency list yet.
Unwired(t) ==
    \A s \in States : /\ \A i \in DOMAIN state[s].outgoing_transitions :
                            state[s].outgoing_transitions[i] # t
                      /\ \A i \in DOMAIN state[s].incoming_transitions :
                            state[s].incoming_transitions[i] # t

\* Lists of transitions out of self that are in no adjacency list yet.
OwnBatches(self) ==
    {ts \in Batches : \A i \in DOMAIN ts : transition[ts[i]].source = self /\ Unwired(ts[i])}

\* Wiring transitions between simple states, each transition once and on its
\* own source, and serializing states and transitions.
NextBuckets ==
    \/ \E name \in Names, f \in BOOLEAN : NewSimpleState(name, f)
    \/ \E s \in States, t \in States, l \in Labels : NewTransition(s, t, l[1], l[2])
    \/ \E s \in States, t \in States, l \in Labels : create_transition(s, t, l[1], l[2])
    \/ \E s \in States : \E ts \in OwnBatches(s) : add_transitions(s, ts)
    \/ \E s \in States : Call_State_to_dict(s)
    \/ \E t \in Transitions : Call_Transition_to_dict(t)

SpecBuckets == Init /\ [][NextBuckets]_vars

\* Wiring transitions between the top-level states of the machine with any
\* arguments the two operations accept, and serializing the machine.
NextWiring ==
    \/ \E name \in Names, f \in BOOLEAN : NewSimpleState(name, f)
    \/ \E s \in States : AppendState(NoObject, s)
    \/ \E s \in Children(NoObject) : SetInitialState(NoObject, s)
    \/ \E s \in States, t \in States, l \in Labels : NewTransition(s, t, l[1], l[2])
    \/ \E s \in States, t \in States, l \in Labels : create_transition(s, t, l[1], l[2])
    \/ \E s \in States, ts \in Batches : add_transitions(s, ts)
    \/ Call_StateMachine_to_dict

SpecWiring == Init /\ [][NextWiring]_vars

\* Reporting the state of one execution over a tree of simple states: the tree
\* is built, then the engine hands over its Runtime.
NextRuntime ==
    \/ runtime = NoCall /\ \E name \in Names, f \in BOOLEAN : NewSimpleState(name, f)
    \/ runtime = NoCall /\ \E s \in States, t \in States : create_transition(s, t, "x", "y")
    \/ runtime = NoCall /\
         \E inputs \in SeqsUpTo({"x"}, MaxInputs), outputs \in SeqsUpTo({"y"}, MaxInputs),
            cs \in States :
            \E index \in 0..Len(inputs),
               nt \in {NoObject} \cup Elements(state[cs].outgoing_transitions) :
               Runtime_snapshot(inputs, index, nt, cs, outputs)
    \/ NewRuntimeState
    \/ Call_RuntimeState_to_dict

SpecRuntime == Init /\ [][NextRuntime]_vars

\* ---- resolution of the nested initial state ---------------------------------------
\* The k-th state on the chain of initial targets that starts at s, NoObject
\* once the chain has ended (at a SimpleState, or at an unset initial_state).
RECURSIVE Follow(_, _)
Follow(s, k) ==
    IF k = 0 THEN s
    ELSE LET p == Follow(s, k - 1)
         IN IF p # NoObject /\ state[p].kind = "composite"
            THEN state[p].initial_state
            ELSE NoObject

ChainReachesSimple(s, k) ==
    Follow(s, k) # NoObject /\ state[Follow(s, k)].kind = "simple"

ChainBroken(s) ==
    \E k \in 0..MaxStates :
        LET p == Follow(s, k)
        IN p # NoObject /\ state[p].kind = "composite" /\ state[p].initial_state = NoObject

Resolving == response.call = "get_nested_initial_state"

\* C4: get_nested_initial_state on a SimpleState returns that state (k = 0); on a
\* CompositeState whose chain of initial targets reaches a SimpleState after k
\* steps, whatever k, it returns that SimpleState.
C4_NestedInitialState ==
    Resolving =>
        \A k \in 0..MaxStates :
            ChainReachesSimple(response.arg, k)
                => response.result = Returned(Follow(response.arg, k))

\* The chain C1 -> C2 -> simple S3 has been resolved to S3.
C4_Witness ==
    /\ Resolving
    /\ ChainReachesSimple(response.arg, 2)
    /\ Cardinality({response.arg, Follow(response.arg, 1), Follow(response.arg, 2)}) = 3
    /\ response.result = Returned(Follow(response.arg, 2))

ContainmentAcyclic == \A c \in States : c \notin Descendants(c)

\* C9 as stated: with an acyclic containment relation, get_nested_initial_state
\* returns a state that is not a CompositeState or raises the malformed-tree
\* error (ValueError); it never exhausts the recursion.
C9_TerminatesWhenContainmentAcyclic ==
    (ContainmentAcyclic /\ Resolving) =>
        \/ /\ "returned" \in DOMAIN response.result
           /\ state[response.result.returned].kind # "composite"
        \/ response.result = Raise("ValueError")

\* Every initial pseudostate of a CompositeState targets a state of its own
\* states list.
InitialTargetsContained ==
    \A c \in Composites :
        state[c].initial_state # NoObject
            => \E i \in DOMAIN state[c].states : state[c].states[i] = state[c].initial_state

\* C9 amended: with an acyclic containment relation in which every CompositeState's
\* initial target is one of the states it directly contains, the call returns a
\* state that is not a CompositeState, or raises ValueError because a
\* CompositeState on the chain has no initial_state.
C9_TerminatesWhenInitialsContained ==
    (ContainmentAcyclic /\ InitialTargetsContained /\ Resolving) =>
        \/ /\ "returned" \in DOMAIN response.result
           /\ state[response.result.returned].kind # "composite"
           /\ ~ChainBroken(response.arg)
        \/ /\ response.result = Raise("ValueError")
           /\ ChainBroken(response.arg)

\* A composite nested two levels deep has been resolved through its contained
\* initial targets.
C9_Witness ==
    /\ ContainmentAcyclic /\ InitialTargetsContained /\ Resolving
    /\ state[response.arg].kind = "composite"
    /\ Follow(response.arg, 1) \in Composites
    /\ "returned" \in DOMAIN response.result
    /\ response.result.returned \in Descendants(Follow(response.arg, 1))

\* ---- serialization of the initial pseudostate -------------------------------------
\* The State objects a to_dict call on the machine, or on state s, walks through.
MachineSubtree == Elements(machine.states) \cup UNION {Descendants(s) : s \in Elements(machine.states)}
StateSubtree(s) == {s} \cup Descendants(s)

LacksInitialState(nodes) ==
    \E c \in nodes : state[c].kind = "composite" /\ state[c].initial_state = NoObject

SerializedMachine == response.call = "StateMachine.to_dict"
SerializedState == response.call = "State.to_dict"

\* C6: a StateMachine without initial_state serializes, with refs.initialState = "";
\* a to_dict call that reaches a CompositeState without initial_state (the node
\* itself or a descendant, the machine's descendants included) raises ValueError
\* and yields no record.
C6_MissingInitialState ==
    /\ (SerializedMachine /\ machine.initial_state = NoObject /\ ~LacksInitialState(MachineSubtree))
           => /\ ~Raised(response.result)
              /\ response.result.refs = ("initialState" :> "")
    /\ (SerializedMachine /\ LacksInitialState(MachineSubtree))
           => response.result = Raise("ValueError")
    /\ (SerializedState /\ LacksInitialState(StateSubtree(response.arg)))
           => response.result = Raise("ValueError")

\* A machine without initial_state that holds a CompositeState with a child has
\* been serialized.
C6_Witness ==
    /\ SerializedMachine /\ machine.initial_state = NoObject
    /\ \E c \in Elements(machine.states) : c \in Composites /\ state[c].states # <<>>
    /\ ~Raised(response.result)
    /\ response.result.refs["initialState"] = ""

\* The initial target of the serialized owner, NoObject when it has none.
OwnerInitialTarget ==
    IF SerializedMachine THEN machine.initial_state
    ELSE IF SerializedState /\ state[response.arg].kind = "composite"
         THEN state[response.arg].initial_state
         ELSE NoObject

CollapsedInitial ==
    /\ SerializedMachine \/ SerializedState
    /\ ~Raised(response.result)
    /\ OwnerInitialTarget # NoObject

ResolvedTargetIsFinal ==
    LET r == get_nested_initial_state(OwnerInitialTarget, 1)
    IN "returned" \in DOMAIN r /\ state[r.returned].is_final

HoldsStateId(refs) ==
    "initialState" \in DOMAIN refs /\ \E s \in States : refs["initialState"] = state[s].id

\* C8 as stated: refs.initialState holds the id of initial_state.target, except
\* when the fully resolved target is final: then the record carries the marker
\* FINAL instead of a state id.
C8_FinalMarker ==
    CollapsedInitial =>
        IF ResolvedTargetIsFinal
        THEN ~HoldsStateId(response.result.refs)
        ELSE response.result.refs["initialState"] = state[OwnerInitialTarget].id

Values(f) == {f[k] : k \in DOMAIN f}

\* C8 amended: refs.initialState holds the id of initial_state.target in every
\* case, also when the fully resolved target is final; the marker FINAL appears
\* nowhere in the owner's attributes or refs.
C8_InitialStateRef ==
    CollapsedInitial =>
        /\ response.result.refs = ("initialState" :> state[OwnerInitialTarget].id)
        /\ "FINAL" \notin Values(response.result.refs) \cup Values(response.result.attributes)

\* An owner whose fully resolved initial target is final has been serialized.
C8_Witness ==
    /\ CollapsedInitial
    /\ ResolvedTargetIsFinal
    /\ response.result.refs["initialState"] = state[OwnerInitialTarget].id

\* ---- adjacency lists ------------------------------------------------------------
RECURSIVE Count(_, _)
Count(x, seq) ==
    IF seq = <<>> THEN 0 ELSE (IF Head(seq) = x THEN 1 ELSE 0) + Count(x, Tail(seq))

\* t has been passed to create_transition or add_transitions.
Wired(t) ==
    \E s \in States : Count(t, state[s].outgoing_transitions) > 0
                         \/ Count(t, state[s].incoming_transitions) > 0

\* C1: every wired Transition t appears exactly once in t.source.outgoing_transitions,
\* exactly once in t.target.incoming_transitions, and in no other state's lists.
C1_AdjacencyInvariant ==
    \A t \in Transitions :
        Wired(t) =>
            \A s \in States :
                /\ Count(t, state[s].outgoing_transitions)
                       = (IF s = transition[t].source THEN 1 ELSE 0)
                /\ Count(t, state[s].incoming_transitions)
                       = (IF s = transition[t].target THEN 1 ELSE 0)

\* ---- the two transition buckets of a serialized State ------------------------------
RECURSIVE IsSubsequence(_, _)
IsSubsequence(a, b) ==
    IF a = <<>> THEN TRUE
    ELSE IF b = <<>> THEN FALSE
    ELSE IF Head(a) = Head(b) THEN IsSubsequence(Tail(a), Tail(b))
    ELSE IsSubsequence(a, Tail(b))

Ids(records) == [i \in DOMAIN records |-> records[i].id]
TransitionIds(ts) == [i \in DOMAIN ts |-> transition[ts[i]].id]
TargetIsFinal(t) == state[transition[t].target].is_final
WithId(id) == CHOOSE t \in Transitions : transition[t].id = id

\* C2: in a serialized State every outgoing transition is in exactly one bucket,
\* 'final transitions' iff its target is final, as often as it is in
\* outgoing_transitions, and each bucket keeps the order of outgoing_transitions.
C2_StablePartition ==
    (SerializedState /\ ~Raised(response.result)) =>
        LET out == TransitionIds(state[response.arg].outgoing_transitions)
            nonfinal == Ids(response.result.children["transitions"])
            final == Ids(response.result.children["final transitions"])
        IN /\ \A i \in DOMAIN nonfinal : ~TargetIsFinal(WithId(nonfinal[i]))
           /\ \A i \in DOMAIN final : TargetIsFinal(WithId(final[i]))
           /\ \A t \in Transitions :
                  Count(transition[t].id, nonfinal) + Count(transition[t].id, final)
                      = Count(transition[t].id, out)
           /\ Len(nonfinal) + Len(final) = Len(out)
           /\ IsSubsequence(nonfinal, out)
           /\ IsSubsequence(final, out)

\* A State has been serialized whose two outgoing transitions, inserted in the
\* reverse of their creation order, fill both buckets.
C2_Witness ==
    /\ SerializedState /\ ~Raised(response.result)
    /\ response.result.children["final transitions"] # <<>>
    /\ response.result.children["transitions"] # <<>>
    /\ state[response.arg].outgoing_transitions = <<2, 1>>

\* C5: a serialized Transition has refs.target iff its target is not final; then
\* refs.target is target.id; with a final target refs is empty.
C5_TargetRef ==
    response.call = "Transition.to_dict" =>
        LET target == state[transition[response.arg].target]
            refs == response.result.refs
        IN /\ "target" \in DOMAIN refs <=> ~target.is_final
           /\ ~target.is_final => refs["target"] = target.id
           /\ target.is_final => DOMAIN refs = {}

\* A Transition into a final state has been serialized.
C5_Witness ==
    /\ response.call = "Transition.to_dict"
    /\ state[transition[response.arg].target].is_final
    /\ transition[response.arg].source # transition[response.arg].target
    /\ DOMAIN response.result.refs = {}

\* ---- ids of a serialized machine -----------------------------------------------------
RECURSIVE StateRecordIds(_)
RECURSIVE Concat(_)
Concat(seqs) == IF seqs = <<>> THEN <<>> ELSE Head(seqs) \o Concat(Tail(seqs))

\* The ids of a state record and of the records nested in it, one entry per record.
StateRecordIds(r) ==
    <<r.id>> \o Ids(r.children["transitions"]) \o Ids(r.children["final transitions"])
        \o (IF "states" \in DOMAIN r.children
            THEN Concat([i \in DOMAIN r.children["states"] |-> StateRecordIds(r.children["states"][i])])
            ELSE <<>>)

MachineRecordIds(r) ==
    <<r.id>> \o Concat([i \in DOMAIN r.children["states"] |-> StateRecordIds(r.children["states"][i])])

\* C3: no two records nested in a serialized StateMachine share an id.
C3_UniqueIds ==
    (SerializedMachine /\ ~Raised(response.result)) =>
        LET ids == MachineRecordIds(response.result)
        IN \A i, j \in DOMAIN ids : ids[i] = ids[j] => i = j

\* ---- the serialized runtime state ---------------------------------------------------
\* C7: with a final current_state the record has attributes.currentState = "FINAL"
\* and empty refs; otherwise refs.currentState is current_state.id and attributes
\* has no currentState; in both cases attributes holds inputs,
\* nextConsumedInputIndex and outputs with the RuntimeState's values.
C7_RuntimeStateRecord ==
    rt_response # NoCall =>
        LET r == rt_response.result
            cs == state[runtime_state.current_state]
        IN /\ r.attributes["inputs"] = runtime_state.inputs
           /\ r.attributes["nextConsumedInputIndex"] = runtime_state.next_consumed_input_index
           /\ r.attributes["outputs"] = runtime_state.outputs
           /\ cs.is_final =>
                  /\ DOMAIN r.attributes
                         = {"inputs", "nextConsumedInputIndex", "outputs", "currentState"}
                  /\ r.attributes["currentState"] = "FINAL"
                  /\ DOMAIN r.refs = {}
           /\ ~cs.is_final =>
                  /\ DOMAIN r.attributes = {"inputs", "nextConsumedInputIndex", "outputs"}
                  /\ r.refs = ("currentState" :> cs.id)

\* A RuntimeState in a final state, with inputs, outputs and a next input index,
\* has been serialized.
C7_Witness ==
    /\ rt_response # NoCall
    /\ state[runtime_state.current_state].is_final
    /\ runtime_state.inputs # <<>> /\ runtime_state.outputs # <<>>
    /\ runtime_state.next_consumed_input_index = 1
    /\ rt_response.result.attributes["currentState"] = "FINAL"
====
